---- MODULE Spec2Model ----
(***************************************************************************)
(* Training-loop controller of neupy (neupy/network/base.py) with the      *)
(* monotonic step-decay rule (algorithms/steps/simple_step_minimization).  *)
(*                                                                         *)
(* BaseNetwork._train is modelled as a sequential process whose position   *)
(* is pc: one action per call it makes into a pluggable unit (epoch-start  *)
(* hook, shuffle, train_epoch, prediction_error, the reporter generator,   *)
(* the two signal callbacks), each with the outcomes the unit can have:    *)
(* return, raise StopNetworkTraining, raise another exception.             *)
(***************************************************************************)
EXTENDS Integers, Sequences, FiniteSets, TLC

\* ------------------------------------------------------------- bounds
MaxEpochs == 3          \* largest `epochs` argument of a train call
MaxError == 2           \* training errors are 1..MaxError
DecayPeriod == 2        \* the network's epochs_step_minimizator
MaxShowEpoch == 2       \* largest integer / "<N> times" show_epoch property
NRows == 2              \* rows of the training set
TicksPerSecond == 2     \* resolution of the wall clock
MaxLayers == 3          \* longest connection given to a network
ParseMaxN == 10         \* largest N of "<N> times" when resolving alone
ParseMaxEpochs == 100   \* largest total_epochs when resolving alone
CadenceEpochs == 24     \* epochs of the long run that exercises the reporter
MaxRuns == 2            \* train calls made on one network
MaxPredictions == 2     \* predict_raw calls made between two train calls
ParamsPerLayer == 2     \* parameters owned by a trainable layer (weight, bias)

\* --------------------------------------------------- program constants
delay_limit == 1                \* seconds
delay_history_length == 10
ConvergeShowEpoch == 100
MinConvergeEpochs == 2          \* epsilon given and epochs <= 2 is refused
FirstStepNum == 3               \* step = 0.3 in the regression test
FirstStepDen == 10
InitialSharedEpoch == 1

\* Optional values: None is the empty tuple, a present value v is <<v>>.
None == <<>>
Some(v) == <<v>>
Errors == 1..MaxError
Outcomes == {"return", "stop", "fatal"}

VARIABLES
    \* --- construction of the network (clean_layers)
    build_pc,               \* "new" | "built" | "compiled" | "failed"
    connection_arg,         \* the caller's object as passed, [kind, items]
    caller_list,            \* the caller's object after the call
    connection,             \* self.connection: the chain's layers, input first
    build_raised,           \* exception that left the constructor
    overrides,              \* TRUE iff the class overrides init_param_updates
    decay,                  \* TRUE iff SimpleStepMinimization is mixed in
    updates,                \* update list compiled into methods.train_epoch
    \* --- interpreter and network options (fixed at construction)
    python3,                \* TRUE: Python 3 semantics of `/` and round
    show_epoch_property,    \* [kind |-> "int"|"times", n |-> N]
    shuffle_data,
    epoch_end_signal,       \* TRUE iff the callback is not None
    train_end_signal,       \* TRUE iff the callback is not None
    epochs_step_minimizator,
    \* --- network state
    errors_in, errors_out,
    net_epoch,              \* self.epoch (0: attribute not set yet)
    variables_epoch,        \* shared scalar variables.epoch
    variables_step,         \* shared scalar variables.step, <<num, den>>
    parameters,             \* number of update rounds applied to the parameters
    train_epoch_time,
    input_train, target_train,   \* self.input_train / self.target_train (row ids)
    \* --- locals of the running _train call
    pc, epochs, epsilon, compute_error_out, show_epoch, last_epoch_shown,
    input_test, target_test,     \* TRUE iff the argument is not None
    epoch,                  \* loop variable (0: not bound yet)
    error,                  \* value returned by train_epoch in this epoch
    raised,                 \* exception that left _train ("none" if none)
    raised_by,              \* the unit that raised it
    loop_exit,              \* how the for loop ended
    \* --- the epoch_summary generator (show_epoch_summary)
    gen_state,              \* "none" | "created" | "suspended" | "closed"
    gen_show_epoch,
    prev_summary_time,      \* TRUE iff prev_summary_time is not None
    terminal_output_delays,
    rows,                   \* epochs of the rows drawn during this call
    advisories,             \* "Too many outputs" messages of this call
    table_finished,
    streak,                 \* history: latest rows each under a second after the one before, K unchanged
    \* --- history variables
    runs, hook_log, calls, caught, stopped, start_len, completed, warnings

optVars == <<python3, show_epoch_property, shuffle_data, epoch_end_signal,
             train_end_signal, epochs_step_minimizator>>
netVars == <<errors_in, errors_out, net_epoch, variables_epoch, variables_step,
             parameters, train_epoch_time, input_train, target_train>>
runVars == <<pc, epochs, epsilon, compute_error_out, show_epoch,
             last_epoch_shown, input_test, target_test, epoch, error, raised,
             raised_by, loop_exit>>
genVars == <<gen_state, gen_show_epoch, prev_summary_time,
             terminal_output_delays, rows, advisories, table_finished, streak>>
histVars == <<runs, hook_log, calls, caught, stopped, start_len, completed,
              warnings>>
buildVars == <<build_pc, connection_arg, caller_list, connection, build_raised,
               overrides, decay, updates>>
vars == <<buildVars, optVars, netVars, runVars, genVars, histVars>>

\* ------------------------------------------------------------ helpers
Abs(x) == IF x < 0 THEN -x ELSE x
Floor(a, b) == a \div b
Ceil(a, b) == (a + b - 1) \div b
RECURSIVE Sum(_)
Sum(s) == IF s = <<>> THEN 0 ELSE Head(s) + Sum(Tail(s))
IsPrefix(s, t) == Len(s) <= Len(t) /\ SubSeq(t, 1, Len(s)) = s
Units == {"epoch_start_update", "shuffle", "train_epoch", "prediction_error",
          "epoch_end_signal", "train_end_signal", "predict_raw"}
NoCalls == [u \in Units |-> 0]
NotStopped == [unit |-> "none", epoch |-> 0]
Called(u) == [calls EXCEPT ![u] = @ + 1]

\* --------------------------------------------------- cadence resolution
\* Faulty variant: int(a / b) without the round.
PyTruncate(a, b) == a \div b

\* round(a / b) for integers a >= 0, b > 0 under true division: Python 2 rounds
\* a tie away from zero, Python 3 rounds a tie to the even neighbour.
PyRound(a, b) ==
    LET q == a \div b
        r == a % b
    IN  IF 2 * r < b THEN q
        ELSE IF 2 * r > b THEN q + 1
        ELSE IF python3 THEN (IF q % 2 = 0 THEN q ELSE q + 1)
        ELSE q + 1

parse_show_epoch_property(value, n_epochs) ==
    IF value.kind = "int" THEN value.n
    ELSE IF n_epochs <= value.n THEN 1
    ELSE PyRound(n_epochs, value.n)

ShowEpochValues ==
    [kind : {"int", "times"}, n : 1..MaxShowEpoch]

\* ------------------------------------------------------ step decay rule
\* first_step / (1 + variables.epoch / epochs_step_minimizator). The module has
\* no `from __future__ import division`: on two integers `/` is the floor
\* division under Python 2 and the true division under Python 3.
first_step == <<FirstStepNum, FirstStepDen>>

new_step ==
    IF python3
    THEN <<first_step[1] * epochs_step_minimizator,
           first_step[2] * (epochs_step_minimizator + variables_epoch)>>
    ELSE <<first_step[1],
           first_step[2] * (1 + Floor(variables_epoch, epochs_step_minimizator))>>

\* ------------------------------------------------ the reporter generator
\* One next(epoch_summary): the generator's body up to its yield. gap is the
\* wall-clock time since the previous row in ticks (0 for the first row); the
\* generator reads it only when prev_summary_time is set.
MeanBelow(limit, delays) == Sum(delays) < limit * TicksPerSecond * Len(delays)

summary_next(gap) ==
    LET delays == IF prev_summary_time
                  THEN (IF Len(terminal_output_delays) = delay_history_length
                        THEN Append(Tail(terminal_output_delays), gap)
                        ELSE Append(terminal_output_delays, gap))
                  ELSE terminal_output_delays
        full == Len(delays) = delay_history_length
        breach == full /\ MeanBelow(delay_limit, delays)
    IN  /\ gen_state \in {"created", "suspended"}
        /\ gen_state' = "suspended"
        /\ rows' = Append(rows, net_epoch)
        /\ prev_summary_time' = ~full
        /\ gen_show_epoch' =
              IF breach
              THEN gen_show_epoch
                   * Ceil(delay_limit * TicksPerSecond * Len(delays), Sum(delays))
              ELSE gen_show_epoch
        /\ advisories' = IF breach THEN advisories + 1 ELSE advisories
        /\ terminal_output_delays' = IF breach THEN <<>> ELSE delays
        /\ UNCHANGED table_finished
        /\ streak' = IF breach \/ rows = <<>> \/ gap >= delay_limit * TicksPerSecond
                     THEN 0 ELSE streak + 1

\* ------------------------------------------------------- clean_layers
\* A connection is [kind |-> "list" | "tuple" | "chain", items |-> elements].
\* An element is a positive integer, a layer that is not an output layer (a
\* Tanh layer "layer" or a Relu layer "relu"), an Output layer (all three are
\* BaseLayer instances), a LayerConnection object or any other object.
Elements == {"int", "layer", "relu", "output", "connection", "object"}
BaseLayers == {"layer", "relu", "output"}
IsBaseLayer(x) == x \in BaseLayers
SeqsUpTo(n) == UNION {[1..k -> Elements] : k \in 1..n}
AllOf(items, kinds) == \A i \in 1..Len(items) : items[i] \in kinds

\* utils.is_list_of_integers: a list or tuple holding integers only.
is_list_of_integers(c) == c.kind \in {"list", "tuple"} /\ AllOf(c.items, {"int"})

\* layers.utils.generate_layers: one default-activation layer per size but
\* the last, and an output layer for the last size.
generate_layers(sizes) ==
    [i \in 1..Len(sizes) |-> IF i = Len(sizes) THEN "output" ELSE "layer"]

\* connections.LayerConnection(left, right): left chained in front of right.
LayerConnection(left, right) == <<left>> \o right

\* Faulty variant: the loop runs over the layers first to last.
RECURSIVE fold_forward(_, _)
fold_forward(rest, chain) ==
    IF rest = <<>> THEN chain
    ELSE fold_forward(Tail(rest), LayerConnection(Head(rest), chain))

\* Lines 469-472: pop the last layer, then fold the others in front of it,
\* last to first.
RECURSIVE fold_reversed(_, _)
fold_reversed(rest, chain) ==
    IF rest = <<>> THEN chain
    ELSE fold_reversed(SubSeq(rest, 1, Len(rest) - 1),
                       LayerConnection(rest[Len(rest)], chain))

\* Attribute output_layer of a chain: its last layer.
output_layer_of(chain) == chain[Len(chain)]

\* Line 477: the final layer must be an Output instance.
is_output(layer) == layer = "output"

\* clean_layers(connection): [raised, connection, caller], where caller is the
\* caller's object after the call.
clean_layers(c) ==
    LET c1 == IF is_list_of_integers(c)
              THEN [kind |-> "list", items |-> generate_layers(c.items), own |-> TRUE]
              ELSE [kind |-> c.kind, items |-> c.items, own |-> FALSE]
        c2 == IF c1.kind = "tuple"
              THEN [kind |-> "list", items |-> c1.items, own |-> TRUE]
              ELSE c1
        islist == c2.kind = "list"
        chained == islist /\ IsBaseLayer(c2.items[1])
        rest == SubSeq(c2.items, 1, Len(c2.items) - 1)
        chain == IF chained
                 THEN fold_reversed(rest, <<c2.items[Len(c2.items)]>>)
                 ELSE c2.items
        caller == IF chained /\ ~c2.own
                  THEN [kind |-> c.kind, items |-> rest]
                  ELSE c
    IN  IF islist /\ ~chained
        THEN [raised |-> "AttributeError", connection |-> <<>>, caller |-> caller]
        ELSE IF ~is_output(output_layer_of(chain))
        THEN [raised |-> "NetworkConnectionError", connection |-> <<>>,
              caller |-> caller]
        ELSE [raised |-> "none", connection |-> chain, caller |-> caller]

\* Connections whose handling is decided by clean_layers itself: integer
\* lists and layer lists of two or more elements, chains, and lists whose
\* first element is no layer.
ConnectionArgs ==
    {[kind |-> k, items |-> items] :
        k \in {"list", "tuple"},
        items \in {x \in SeqsUpTo(MaxLayers) :
                      \/ Len(x) >= 2 /\ AllOf(x, {"int"})
                      \/ Len(x) >= 2 /\ AllOf(x, BaseLayers)
                      \/ ~IsBaseLayer(x[1]) /\ ~AllOf(x, {"int"})}}
    \cup
    {[kind |-> "chain", items |-> items] :
        items \in {x \in SeqsUpTo(MaxLayers) :
                      Len(x) >= 2 /\ AllOf(x, BaseLayers)}}

\* ConstructableNetwork.__init__ (line 519).
construct ==
    /\ build_pc = "new"
    /\ LET r == clean_layers(connection_arg)
       IN  /\ build_raised' = r.raised
           /\ connection' = r.connection
           /\ caller_list' = r.caller
           /\ build_pc' = IF r.raised = "none" THEN "built" ELSE "failed"
    /\ UNCHANGED <<connection_arg, overrides, decay, updates>>

\* ConstructableNetwork.__init__ (lines 521-525): the attributes derived from
\* the connection; iterating a chain yields its layers, input first.
layers == connection
input_layer == layers[1]
hidden_layers == SubSeq(layers, 2, Len(layers) - 1)
output_layer == layers[Len(layers)]
train_layers == SubSeq(layers, 1, Len(layers) - 1)

\* ------------------------------------------------ the update list
\* updates.extend(...) in a loop: the lists joined in order; the first call
\* that raises ends the loop.
RECURSIVE extend_all(_)
extend_all(results) ==
    IF results = <<>> THEN [raised |-> "none", updates |-> <<>>]
    ELSE IF Head(results).raised # "none" THEN Head(results)
    ELSE LET rest == extend_all(Tail(results))
         IN  IF rest.raised # "none" THEN rest
             ELSE [raised |-> "none",
                   updates |-> Head(results).updates \o rest.updates]

\* A target of an update is <<i, k>>, parameter k of the layer at position i;
\* the shared scalar variables.step belongs to no layer.
shared_step == <<0, 1>>

\* layer.parameters of the trainable layer at position i of the pipeline.
layer_parameters(i) == [k \in 1..ParamsPerLayer |-> <<i, k>>]

\* self.init_param_updates(layer, parameter) (line 615). The method of
\* ConstructableNetwork (lines 618-619) takes one argument beside self, so the
\* call with two raises TypeError; an overriding method of a training
\* algorithm takes both and returns one pair for the parameter.
init_param_updates(layer, parameter) ==
    IF overrides
    THEN [raised |-> "none", updates |-> <<<<parameter, "descent">>>>]
    ELSE [raised |-> "TypeError", updates |-> <<>>]

\* init_layer_updates (lines 595-616).
init_layer_updates(layer) ==
    extend_all([k \in 1..Len(layer_parameters(layer)) |->
                   init_param_updates(layer, layer_parameters(layer)[k])])

\* ConstructableNetwork.init_train_updates (lines 586-593).
base_init_train_updates ==
    extend_all([i \in 1..Len(train_layers) |-> init_layer_updates(i)])

\* SimpleStepMinimization.init_train_updates: the list of the class next in
\* line with the pair for the shared step appended.
init_train_updates ==
    LET base == base_init_train_updates
    IN  IF decay /\ base.raised = "none"
        THEN [raised |-> "none",
              updates |-> Append(base.updates, <<shared_step, "new_step">>)]
        ELSE base

\* init_methods (lines 557-577), the last call of the constructor.
init_methods ==
    /\ build_pc = "built"
    /\ LET r == init_train_updates
       IN  /\ build_raised' = r.raised
           /\ updates' = r.updates
           /\ build_pc' = IF r.raised = "none" THEN "compiled" ELSE "failed"
    /\ UNCHANGED <<connection_arg, caller_list, connection, overrides, decay>>

\* The network of the regression test: [Tanh(2), Tanh(3), StepOutput(1)].
TestConnection == [kind |-> "list", items |-> <<"layer", "layer", "output">>]

BuiltInit ==
    /\ build_pc = "built"
    /\ connection_arg = TestConnection
    /\ caller_list = clean_layers(TestConnection).caller
    /\ connection = clean_layers(TestConnection).connection
    /\ build_raised = "none"
    /\ overrides = TRUE
    /\ decay = TRUE
    /\ updates = init_train_updates.updates

\* -------------------------------------------------------- initial state
\* The network right after construction (BaseNetwork.__init__,
\* ConstructableNetwork.init_variables); no train call made yet.
TypeInit ==
    /\ python3 \in BOOLEAN
    /\ show_epoch_property \in ShowEpochValues
    /\ shuffle_data \in BOOLEAN
    /\ epoch_end_signal \in BOOLEAN
    /\ train_end_signal \in BOOLEAN
    /\ epochs_step_minimizator = DecayPeriod

NetInit ==
    /\ errors_in = <<>>
    /\ errors_out = <<>>
    /\ net_epoch = 0
    /\ variables_epoch = InitialSharedEpoch
    /\ variables_step = first_step
    /\ parameters = 0
    /\ train_epoch_time = None
    /\ input_train = None
    /\ target_train = None

RunInit ==
    /\ pc = "idle"
    /\ epochs = 0
    /\ epsilon = None
    /\ compute_error_out = FALSE
    /\ show_epoch = 0
    /\ last_epoch_shown = 0
    /\ epoch = 0
    /\ error = 0
    /\ raised = "none"
    /\ raised_by = "none"
    /\ input_test = FALSE
    /\ target_test = FALSE
    /\ loop_exit = "none"

GenInit ==
    /\ gen_state = "none"
    /\ gen_show_epoch = 0
    /\ prev_summary_time = FALSE
    /\ terminal_output_delays = <<>>
    /\ rows = <<>>
    /\ advisories = 0
    /\ table_finished = FALSE
    /\ streak = 0

HistInit ==
    /\ runs = 0
    /\ hook_log = <<>>
    /\ calls = NoCalls
    /\ caught = 0
    /\ stopped = NotStopped
    /\ start_len = <<0, 0>>
    /\ completed = 0
    /\ warnings = 0

Init == BuiltInit /\ TypeInit /\ NetInit /\ RunInit /\ GenInit /\ HistInit

\* ------------------------------------------------- leaving the call
\* An exception that is not caught inside _train reaches the caller.
Propagate(exc, unit) ==
    /\ pc' = "raised"
    /\ raised' = exc
    /\ raised_by' = unit

ExcOf(out) == IF out = "stop" THEN "StopNetworkTraining" ELSE "Exception"

\* Faulty variants of the except clause: `continue` in place of `break`, a
\* `return` out of the call, and a re-raise.
CatchStopContinue(unit) ==
    /\ pc' = "iter"
    /\ caught' = caught + 1
    /\ stopped' = [unit |-> unit, epoch |-> epoch]
    /\ UNCHANGED <<raised, raised_by, loop_exit>>

CatchStopReturn(unit) ==
    /\ pc' = "close"
    /\ loop_exit' = "break"
    /\ caught' = caught + 1
    /\ stopped' = [unit |-> unit, epoch |-> epoch]
    /\ UNCHANGED <<raised, raised_by>>

CatchStopReraise(unit) ==
    /\ Propagate("StopNetworkTraining", unit)
    /\ loop_exit' = "break"
    /\ caught' = caught + 1
    /\ stopped' = [unit |-> unit, epoch |-> epoch]

\* except StopNetworkTraining: log and break (lines 370-376).
CatchStop(unit) ==
    /\ pc' = "post"
    /\ loop_exit' = "break"
    /\ caught' = caught + 1
    /\ stopped' = [unit |-> unit, epoch |-> epoch]
    /\ UNCHANGED <<raised, raised_by>>

\* Faulty variant: the epoch-end signal is left out.
AfterRowNoSignal == "iter"

\* The statement after the progress row: the epoch-end signal, or the next
\* turn of the for loop when no callback is configured.
AfterRow == IF epoch_end_signal THEN "signal" ELSE "iter"

\* ------------------------------------------------------- BaseNetwork._train
Epsilons == {None, Some(1)}
Identity == [i \in 1..NRows |-> i]

\* Faulty variant: the held-out target is not looked at.
held_out_input_only(in_test, tg_test) == in_test

\* Lines 291-292.
held_out(in_test, tg_test) == in_test /\ tg_test

\* Faulty variant: `epochs < 2`.
InvalidArgumentsBelow(ep, eps) == eps # None /\ ep < MinConvergeEpochs

\* Line 283: the argument check.
InvalidArguments(ep, eps) == eps # None /\ ep <= MinConvergeEpochs

\* Faulty variant: convergence mode overrides an integer show_epoch too.
initial_show_epoch_overriding(ep, eps) ==
    IF eps # None THEN ConvergeShowEpoch
    ELSE parse_show_epoch_property(show_epoch_property, ep)

\* Lines 295-306: the reporting interval the call starts with.
initial_show_epoch(ep, eps) ==
    IF eps # None
    THEN (IF show_epoch_property.kind = "times"
          THEN ConvergeShowEpoch
          ELSE show_epoch_property.n)
    ELSE parse_show_epoch_property(show_epoch_property, ep)

\* Faulty variant: the call starts a new history.
local_errors_fresh(history) == <<>>

\* errors = self.errors_in (line 327): the local names the network's own list.
local_errors(history) == history

\* The call up to the for statement (lines 256-341).
train(ep, eps, in_test, tg_test, has_target) ==
    /\ pc \in {"idle", "returned", "raised"}
    /\ runs' = runs + 1
    /\ epochs' = ep
    /\ epsilon' = eps
    /\ input_test' = in_test
    /\ target_test' = tg_test
    /\ hook_log' = <<>>
    /\ calls' = NoCalls
    /\ caught' = 0
    /\ stopped' = NotStopped
    /\ completed' = 0
    /\ start_len' = <<Len(errors_in), Len(errors_out)>>
    /\ last_epoch_shown' = 0
    /\ epoch' = 0
    /\ error' = 0
    /\ loop_exit' = "none"
    /\ prev_summary_time' = FALSE
    /\ terminal_output_delays' = <<>>
    /\ rows' = <<>>
    /\ advisories' = 0
    /\ table_finished' = FALSE
    /\ streak' = 0
    /\ errors_in' = local_errors(errors_in)
    /\ UNCHANGED <<buildVars, optVars, errors_out, net_epoch, variables_epoch,
                   variables_step, parameters, train_epoch_time>>
    /\ IF InvalidArguments(ep, eps)
       THEN /\ Propagate("ValueError", "_train")
            /\ compute_error_out' = FALSE
            /\ show_epoch' = 0
            /\ gen_state' = "none"
            /\ gen_show_epoch' = 0
            /\ warnings' = 0
            /\ UNCHANGED <<input_train, target_train>>
       ELSE /\ pc' = "iter"
            /\ raised' = "none"
            /\ raised_by' = "none"
            /\ compute_error_out' = held_out(in_test, tg_test)
            /\ show_epoch' = initial_show_epoch(ep, eps)
            /\ warnings' = IF eps # None /\ show_epoch_property.kind = "times"
                           THEN 1 ELSE 0
            /\ gen_state' = "created"
            /\ gen_show_epoch' = initial_show_epoch(ep, eps)
            /\ input_train' = Identity
            /\ target_train' = IF has_target THEN Identity ELSE None

\* The first train call on the network.
Train ==
    /\ runs = 0
    /\ \E ep \in 0..MaxEpochs, eps \in Epsilons, in_test, tg_test \in BOOLEAN :
          train(ep, eps, in_test, tg_test, TRUE)

\* Faulty variant: range(1, epochs + 2).
range_next_beyond == IF epoch <= epochs THEN epoch + 1 ELSE 0

\* next() of range(1, epochs + 1): the next epoch number, 0 when exhausted.
range_next == IF epoch < epochs THEN epoch + 1 ELSE 0

\* next() of iter_until_converge(self, epsilon, max_epochs=epochs): epoch 1
\* first; afterwards the generator stops once the two most recent training
\* errors differ by less than epsilon, or when epochs is reached.
converged ==
    /\ Len(errors_in) >= 2
    /\ Abs(errors_in[Len(errors_in)] - errors_in[Len(errors_in) - 1]) < epsilon[1]

iter_until_converge_next ==
    IF epoch = 0 THEN 1
    ELSE IF converged \/ epoch >= epochs THEN 0
    ELSE epoch + 1

\* `for epoch in iterepochs` (line 343).
IterNext ==
    /\ pc = "iter"
    /\ LET n == IF epsilon = None THEN range_next ELSE iter_until_converge_next
       IN  IF n = 0
           THEN /\ pc' = "post"
                /\ loop_exit' = IF epsilon # None /\ converged
                                THEN "converged" ELSE "exhausted"
                /\ UNCHANGED epoch
           ELSE /\ pc' = "hook"
                /\ epoch' = n
                /\ UNCHANGED loop_exit
    /\ UNCHANGED <<buildVars, optVars, netVars, genVars, histVars, epochs, epsilon,
                   compute_error_out, show_epoch, last_epoch_shown, input_test,
                   target_test, error, raised, raised_by>>

\* Faulty variant: the shared scalar is not written.
set_value_skipped(value) == variables_epoch

\* self.variables.epoch.set_value(epoch) (line 651): the scalar's new value.
set_value(value) == value

\* epoch_start_update(epoch) (lines 345, 641-651): the hook records the epoch
\* on the network and in the shared scalar; an overriding hook may then raise.
epoch_start_update(out) ==
    /\ pc = "hook"
    /\ net_epoch' = epoch
    /\ variables_epoch' = set_value(epoch)
    /\ hook_log' = Append(hook_log, epoch)
    /\ calls' = Called("epoch_start_update")
    /\ IF out = "return"
       THEN /\ pc' = IF shuffle_data THEN "shuffle" ELSE "train"
            /\ UNCHANGED <<raised, raised_by, stopped>>
       ELSE /\ Propagate(ExcOf(out), "epoch_start_update")
            /\ stopped' = IF out = "stop"
                           THEN [unit |-> "epoch_start_update", epoch |-> epoch]
                           ELSE stopped
    /\ UNCHANGED <<buildVars, optVars, genVars, errors_in, errors_out, variables_step,
                   parameters, train_epoch_time, input_train, target_train,
                   epochs, epsilon, compute_error_out, show_epoch,
                   last_epoch_shown, input_test, target_test, epoch, error,
                   loop_exit,
                   runs, caught, start_len, completed, warnings>>

EpochStartUpdate == \E out \in Outcomes : epoch_start_update(out)

\* utils.shuffle(*arrays): one random permutation applied to every array.
shuffle(perm, array) == [i \in 1..NRows |-> array[perm[i]]]

\* Faulty variant: only the input is permuted.
shuffle_input_only(perm, input, target) == <<shuffle(perm, input), target>>

\* shuffle_train_data (lines 82-85).
shuffle_train_data(perm, input, target) ==
    IF target = None
    THEN <<shuffle(perm, input), None>>
    ELSE <<shuffle(perm, input), shuffle(perm, target)>>

\* Lines 347-351, outside the try block.
shuffle_step(outs, perms) ==
    /\ pc = "shuffle"
    /\ calls' = Called("shuffle")
    /\ \E out \in outs, perm \in perms :
          IF out = "return"
          THEN /\ input_train' = shuffle_train_data(perm, input_train, target_train)[1]
               /\ target_train' = shuffle_train_data(perm, input_train, target_train)[2]
               /\ pc' = "train"
               /\ UNCHANGED <<raised, raised_by, stopped>>
          ELSE /\ Propagate(ExcOf(out), "shuffle")
               /\ stopped' = IF out = "stop"
                              THEN [unit |-> "shuffle", epoch |-> epoch]
                              ELSE stopped
               /\ UNCHANGED <<input_train, target_train>>
    /\ UNCHANGED <<buildVars, optVars, genVars, errors_in, errors_out, net_epoch,
                   variables_epoch, variables_step, parameters, train_epoch_time,
                   epochs, epsilon, compute_error_out, show_epoch,
                   last_epoch_shown, input_test, target_test, epoch, error,
                   loop_exit,
                   runs, hook_log, caught, start_len, completed, warnings>>

\* Faulty variant: the updates are applied before the unit raises.
train_epoch_updates_first(out, e) ==
    /\ pc = "train"
    /\ calls' = Called("train_epoch")
    /\ parameters' = parameters + 1
    /\ variables_step' = new_step
    /\ IF out = "return"
       THEN /\ error' = e
            /\ pc' = IF compute_error_out THEN "eval" ELSE "append"
            /\ UNCHANGED <<raised, raised_by, loop_exit, caught, stopped>>
       ELSE /\ UNCHANGED error
            /\ IF out = "stop"
               THEN CatchStop("train_epoch")
               ELSE Propagate("Exception", "train_epoch")
                    /\ UNCHANGED <<loop_exit, caught, stopped>>
    /\ UNCHANGED <<buildVars, optVars, genVars, errors_in, errors_out, net_epoch,
                   variables_epoch, train_epoch_time, input_train, target_train,
                   epochs, epsilon, compute_error_out, show_epoch,
                   last_epoch_shown, input_test, target_test, epoch,
                   runs, hook_log, start_len, completed, warnings>>

\* error = train_epoch(input_train, target_train) (line 354): the compiled unit
\* returns the error and applies its updates, every new value computed from
\* the values before the call; a raise happens before any update.
train_epoch(out, e) ==
    /\ pc = "train"
    /\ calls' = Called("train_epoch")
    /\ IF out = "return"
       THEN /\ error' = e
            /\ parameters' = parameters + 1
            /\ variables_step' = new_step
            /\ pc' = IF compute_error_out THEN "eval" ELSE "append"
            /\ UNCHANGED <<raised, raised_by, loop_exit, caught, stopped>>
       ELSE /\ UNCHANGED <<error, parameters, variables_step>>
            /\ IF out = "stop"
               THEN CatchStop("train_epoch")
               ELSE Propagate("Exception", "train_epoch")
                    /\ UNCHANGED <<loop_exit, caught, stopped>>
    /\ UNCHANGED <<buildVars, optVars, genVars, errors_in, errors_out, net_epoch,
                   variables_epoch, train_epoch_time, input_train, target_train,
                   epochs, epsilon, compute_error_out, show_epoch,
                   last_epoch_shown, input_test, target_test, epoch,
                   runs, hook_log, start_len, completed, warnings>>

Shuffle == shuffle_step(Outcomes, {Identity})

TrainEpoch == \E out \in Outcomes, e \in Errors : train_epoch(out, e)

\* Faulty variant: the unit is compiled with the training updates.
prediction_error_updating(out) ==
    /\ pc = "eval"
    /\ calls' = Called("prediction_error")
    /\ parameters' = parameters + 1
    /\ variables_step' = new_step
    /\ IF out = "return"
       THEN /\ errors_out' = Append(errors_out, <<runs, epoch>>)
            /\ pc' = "append"
            /\ UNCHANGED <<raised, raised_by, loop_exit, caught, stopped>>
       ELSE /\ UNCHANGED errors_out
            /\ IF out = "stop"
               THEN CatchStop("prediction_error")
               ELSE Propagate("Exception", "prediction_error")
                    /\ UNCHANGED <<loop_exit, caught, stopped>>
    /\ UNCHANGED <<buildVars, optVars, genVars, errors_in, net_epoch, variables_epoch,
                   train_epoch_time, input_train,
                   target_train, epochs, epsilon, compute_error_out, show_epoch,
                   last_epoch_shown, input_test, target_test, epoch, error,
                   runs, hook_log, start_len, completed, warnings>>

\* Lines 356-358: prediction_error and the append to errors_out. The value
\* returned decides nothing in the loop: it is named by the call returning it.
prediction_error(out) ==
    /\ pc = "eval"
    /\ calls' = Called("prediction_error")
    /\ IF out = "return"
       THEN /\ errors_out' = Append(errors_out, <<runs, epoch>>)
            /\ pc' = "append"
            /\ UNCHANGED <<raised, raised_by, loop_exit, caught, stopped>>
       ELSE /\ UNCHANGED errors_out
            /\ IF out = "stop"
               THEN CatchStop("prediction_error")
               ELSE Propagate("Exception", "prediction_error")
                    /\ UNCHANGED <<loop_exit, caught, stopped>>
    /\ UNCHANGED <<buildVars, optVars, genVars, errors_in, net_epoch, variables_epoch,
                   variables_step, parameters, train_epoch_time, input_train,
                   target_train, epochs, epsilon, compute_error_out, show_epoch,
                   last_epoch_shown, input_test, target_test, epoch, error,
                   runs, hook_log, start_len, completed, warnings>>

PredictionError == \E out \in Outcomes : prediction_error(out)

\* Faulty variant: the first epoch is not singled out.
on_cadence_multiples_only == epoch % show_epoch = 0

\* Line 363: the epoch is on the reporting cadence.
on_cadence == epoch % show_epoch = 0 \/ epoch = 1

\* Lines 360-363: errors.append(error), the epoch's elapsed time, and the
\* cadence test.
AppendError ==
    /\ pc = "append"
    /\ errors_in' = Append(errors_in, error)
    /\ train_epoch_time' = Some("elapsed")
    /\ pc' = IF on_cadence THEN "render" ELSE AfterRow
    /\ completed' = IF ~on_cadence /\ ~epoch_end_signal
                    THEN completed + 1 ELSE completed
    /\ UNCHANGED <<buildVars, optVars, genVars, errors_out, net_epoch, variables_epoch,
                   variables_step, parameters, input_train, target_train,
                   epochs, epsilon, compute_error_out, show_epoch,
                   last_epoch_shown, input_test, target_test, epoch, error,
                   raised, raised_by, loop_exit,
                   runs, hook_log, calls, caught, stopped, start_len, warnings>>

\* Gaps the wall clock can show between two rendered rows, in ticks: a single
\* tick, or a full second. A call of fewer than delay_history_length epochs
\* never reads the gaps it records.
Gaps == {1, TicksPerSecond}
SteadyGaps == {TicksPerSecond}
GapChoices(gaps) == IF rows = <<>> THEN {0} ELSE gaps

\* Lines 364-365: show_epoch = next(epoch_summary); last_epoch_shown = epoch.
render_row(gap) ==
    /\ pc = "render"
    /\ summary_next(gap)
    /\ show_epoch' = gen_show_epoch'
    /\ last_epoch_shown' = epoch
    /\ pc' = AfterRow
    /\ completed' = IF epoch_end_signal THEN completed ELSE completed + 1
    /\ UNCHANGED <<buildVars, optVars, netVars, epochs, epsilon, compute_error_out,
                   input_test, target_test, epoch, error, raised, raised_by,
                   loop_exit,
                   runs, hook_log, calls, caught, stopped, start_len, warnings>>

RenderRow == \E gap \in GapChoices(SteadyGaps) : render_row(gap)

\* Lines 367-368: the epoch-end signal, the last statement of the try block.
epoch_end_signal_call(out) ==
    /\ pc = "signal"
    /\ calls' = Called("epoch_end_signal")
    /\ IF out = "return"
       THEN /\ pc' = "iter"
            /\ completed' = completed + 1
            /\ UNCHANGED <<raised, raised_by, loop_exit, caught, stopped>>
       ELSE /\ UNCHANGED completed
            /\ IF out = "stop"
               THEN CatchStop("epoch_end_signal")
               ELSE Propagate("Exception", "epoch_end_signal")
                    /\ UNCHANGED <<loop_exit, caught, stopped>>
    /\ UNCHANGED <<buildVars, optVars, netVars, genVars, epochs, epsilon, compute_error_out,
                   show_epoch, last_epoch_shown, input_test, target_test, epoch,
                   error, runs, hook_log, start_len, warnings>>

EpochEndSignal == \E out \in Outcomes : epoch_end_signal_call(out)

\* Faulty variant: the last row is drawn whether or not the epoch has one.
post_loop_always(gap) ==
    /\ pc = "post"
    /\ IF epoch = 0
       THEN /\ Propagate("UnboundLocalError", "_train")
            /\ UNCHANGED genVars
       ELSE /\ pc' = IF train_end_signal THEN "end" ELSE "close"
            /\ UNCHANGED <<raised, raised_by>>
            /\ summary_next(gap)
    /\ UNCHANGED <<buildVars, optVars, netVars, histVars, epochs, epsilon, compute_error_out,
                   show_epoch, last_epoch_shown, input_test, target_test, epoch,
                   error, loop_exit>>

\* Lines 378-379: the forced last row. The loop variable is read here; when
\* the loop body never ran it is unbound and the read raises.
post_loop(gap) ==
    /\ pc = "post"
    /\ IF epoch = 0
       THEN /\ Propagate("UnboundLocalError", "_train")
            /\ UNCHANGED genVars
       ELSE /\ pc' = IF train_end_signal THEN "end" ELSE "close"
            /\ UNCHANGED <<raised, raised_by>>
            /\ IF epoch # last_epoch_shown
               THEN summary_next(gap)
               ELSE UNCHANGED genVars
    /\ UNCHANGED <<buildVars, optVars, netVars, histVars, epochs, epsilon, compute_error_out,
                   show_epoch, last_epoch_shown, input_test, target_test, epoch,
                   error, loop_exit>>

PostLoop == \E gap \in GapChoices(SteadyGaps) : post_loop(gap)

\* Lines 381-382: the end-of-training signal, outside the try block.
train_end_signal_call(out) ==
    /\ pc = "end"
    /\ calls' = Called("train_end_signal")
    /\ IF out = "return"
       THEN /\ pc' = "close"
            /\ UNCHANGED <<raised, raised_by>>
       ELSE /\ Propagate(ExcOf(out), "train_end_signal")
    /\ UNCHANGED <<buildVars, optVars, netVars, genVars, epochs, epsilon, compute_error_out,
                   show_epoch, last_epoch_shown, input_test, target_test, epoch,
                   error, loop_exit,
                   runs, hook_log, caught, stopped, start_len, completed,
                   warnings>>

TrainEndSignal == \E out \in Outcomes : train_end_signal_call(out)

\* Lines 384-385: epoch_summary.close() runs the generator's finally clause
\* (table_drawer.finish) if the generator was ever started; _train returns.
Close ==
    /\ pc = "close"
    /\ gen_state' = "closed"
    /\ table_finished' = (gen_state = "suspended")
    /\ pc' = "returned"
    /\ UNCHANGED <<buildVars, optVars, netVars, histVars, epochs, epsilon, compute_error_out,
                   show_epoch, last_epoch_shown, input_test, target_test, epoch,
                   error, raised, raised_by, loop_exit,
                   gen_show_epoch, prev_summary_time, terminal_output_delays,
                   rows, advisories, streak>>

Next ==
    \/ Train
    \/ IterNext
    \/ EpochStartUpdate
    \/ Shuffle
    \/ TrainEpoch
    \/ PredictionError
    \/ AppendError
    \/ RenderRow
    \/ EpochEndSignal
    \/ PostLoop
    \/ TrainEndSignal
    \/ Close

Spec == Init /\ [][Next]_vars

\* ------------------------------------------- construction on its own
FixedOptions ==
    /\ python3 = TRUE
    /\ show_epoch_property = [kind |-> "int", n |-> 1]
    /\ shuffle_data = FALSE
    /\ epoch_end_signal = FALSE
    /\ train_end_signal = FALSE
    /\ epochs_step_minimizator = DecayPeriod

InitBuild ==
    /\ build_pc = "new"
    /\ connection_arg \in ConnectionArgs
    /\ caller_list = connection_arg
    /\ connection = <<>>
    /\ build_raised = "none"
    /\ overrides = TRUE
    /\ decay = TRUE
    /\ updates = <<>>
    /\ FixedOptions /\ NetInit /\ RunInit /\ GenInit /\ HistInit

Construct ==
    /\ construct
    /\ UNCHANGED <<optVars, netVars, runVars, genVars, histVars>>

SpecBuild == InitBuild /\ [][Construct]_vars

\* --------------------------------------- construction with compilation
\* The constructor of a class that does or does not override
\* init_param_updates, with or without the step-decay rule.
InitCompile ==
    /\ build_pc = "new"
    /\ connection_arg \in ConnectionArgs
    /\ caller_list = connection_arg
    /\ connection = <<>>
    /\ build_raised = "none"
    /\ overrides \in BOOLEAN
    /\ decay \in BOOLEAN
    /\ updates = <<>>
    /\ FixedOptions /\ NetInit /\ RunInit /\ GenInit /\ HistInit

InitMethods ==
    /\ init_methods
    /\ UNCHANGED <<optVars, netVars, runVars, genVars, histVars>>

NextCompile ==
    \/ Construct
    \/ InitMethods

SpecCompile == InitCompile /\ [][NextCompile]_vars

\* ------------------------------- resolving the cadence spec on its own
InitParse ==
    /\ BuiltInit /\ NetInit /\ GenInit /\ HistInit
    /\ python3 \in BOOLEAN
    /\ show_epoch_property \in [kind : {"int", "times"}, n : 1..ParseMaxN]
    /\ shuffle_data = FALSE
    /\ epoch_end_signal = FALSE
    /\ train_end_signal = FALSE
    /\ epochs_step_minimizator = DecayPeriod
    /\ pc = "parse"
    /\ epochs \in 1..ParseMaxEpochs
    /\ epsilon = None
    /\ compute_error_out = FALSE
    /\ show_epoch = 0
    /\ last_epoch_shown = 0
    /\ input_test = FALSE
    /\ target_test = FALSE
    /\ epoch = 0
    /\ error = 0
    /\ raised = "none"
    /\ raised_by = "none"
    /\ loop_exit = "none"

\* show_epoch = parse_show_epoch_property(show_epoch, epochs) (line 306).
ParseShowEpoch ==
    /\ pc = "parse"
    /\ show_epoch' = parse_show_epoch_property(show_epoch_property, epochs)
    /\ pc' = "parsed"
    /\ UNCHANGED <<buildVars, optVars, netVars, genVars, histVars, epochs, epsilon,
                   compute_error_out, last_epoch_shown, input_test, target_test,
                   epoch, error, raised, raised_by, loop_exit>>

SpecParse == InitParse /\ [][ParseShowEpoch]_vars

\* ------------------------------------ a long run that fills the gap buffer
\* A fixed-count call of CadenceEpochs epochs in which no unit raises, with rows
\* coming a tick or a full second apart.
InitCadence ==
    /\ BuiltInit /\ NetInit /\ RunInit /\ GenInit /\ HistInit
    /\ python3 = TRUE
    /\ show_epoch_property \in [kind : {"int"}, n : 1..MaxShowEpoch]
    /\ shuffle_data = FALSE
    /\ epoch_end_signal = FALSE
    /\ train_end_signal = FALSE
    /\ epochs_step_minimizator = DecayPeriod

LongTrain == runs = 0 /\ train(CadenceEpochs, None, FALSE, FALSE, TRUE)
HookReturns == epoch_start_update("return")
TrainEpochReturns == train_epoch("return", 1)
TimedRenderRow == \E gap \in GapChoices(Gaps) : render_row(gap)
TimedPostLoop == \E gap \in GapChoices(Gaps) : post_loop(gap)

NextCadence ==
    \/ LongTrain
    \/ IterNext
    \/ HookReturns
    \/ TrainEpochReturns
    \/ AppendError
    \/ TimedRenderRow
    \/ TimedPostLoop
    \/ Close

SpecCadence == InitCadence /\ [][NextCadence]_vars

\* ------------------------------------------- train called again and again
\* Up to MaxRuns fixed-count calls on one network, each made after the one
\* before has returned. train_epoch returns the number of the call as its
\* error, or raises the stop signal.
InitResume ==
    /\ BuiltInit /\ NetInit /\ RunInit /\ GenInit /\ HistInit
    /\ python3 \in BOOLEAN
    /\ show_epoch_property \in [kind : {"int"}, n : 1..MaxShowEpoch]
    /\ shuffle_data = FALSE
    /\ epoch_end_signal = FALSE
    /\ train_end_signal = FALSE
    /\ epochs_step_minimizator = DecayPeriod

TrainAgain ==
    /\ runs < MaxRuns
    /\ pc \in {"idle", "returned"}
    /\ \E ep \in 1..MaxEpochs : train(ep, None, FALSE, FALSE, TRUE)

TrainEpochTagged == \E out \in {"return", "stop"} : train_epoch(out, runs)

NextResume ==
    \/ TrainAgain
    \/ IterNext
    \/ HookReturns
    \/ TrainEpochTagged
    \/ AppendError
    \/ RenderRow
    \/ PostLoop
    \/ Close

SpecResume == InitResume /\ [][NextResume]_vars

\* ------------------------------------------------- shuffling every epoch
\* A fixed-count call on a network with shuffle_data set, with or without a
\* training target; every epoch draws one of the permutations of the rows.
InitShuffle ==
    /\ BuiltInit /\ NetInit /\ RunInit /\ GenInit /\ HistInit
    /\ python3 = TRUE
    /\ show_epoch_property \in [kind : {"int"}, n : 1..MaxShowEpoch]
    /\ shuffle_data = TRUE
    /\ epoch_end_signal = FALSE
    /\ train_end_signal = FALSE
    /\ epochs_step_minimizator = DecayPeriod

TrainShuffled ==
    /\ runs = 0
    /\ \E ep \in 1..MaxEpochs, has_target \in BOOLEAN :
          train(ep, None, FALSE, FALSE, has_target)

ShuffleRows == shuffle_step({"return"}, Permutations(1..NRows))

NextShuffle ==
    \/ TrainShuffled
    \/ IterNext
    \/ HookReturns
    \/ ShuffleRows
    \/ TrainEpochReturns
    \/ AppendError
    \/ RenderRow
    \/ PostLoop
    \/ Close

SpecShuffle == InitShuffle /\ [][NextShuffle]_vars

\* ---------------------------------------- a fixed-count call left alone
\* One fixed-count call of at least one epoch in which every unit returns.
\* _train is sequential code: once called it keeps taking its next step, as
\* the weak fairness of the next-state relation says.
InitFixed ==
    /\ BuiltInit /\ NetInit /\ RunInit /\ GenInit /\ HistInit
    /\ python3 = TRUE
    /\ show_epoch_property \in ShowEpochValues
    /\ shuffle_data \in BOOLEAN
    /\ epoch_end_signal \in BOOLEAN
    /\ train_end_signal \in BOOLEAN
    /\ epochs_step_minimizator = DecayPeriod

TrainFixed ==
    /\ runs = 0
    /\ \E ep \in 1..MaxEpochs, in_test, tg_test \in BOOLEAN :
          train(ep, None, in_test, tg_test, TRUE)

ShuffleReturns == shuffle_step({"return"}, {Identity})
PredictionReturns == prediction_error("return")
SignalReturns == epoch_end_signal_call("return")
EndSignalReturns == train_end_signal_call("return")

NextFixed ==
    \/ TrainFixed
    \/ IterNext
    \/ HookReturns
    \/ ShuffleReturns
    \/ TrainEpochReturns
    \/ PredictionReturns
    \/ AppendError
    \/ RenderRow
    \/ SignalReturns
    \/ PostLoop
    \/ EndSignalReturns
    \/ Close

SpecFixed == InitFixed /\ [][NextFixed]_vars /\ WF_vars(NextFixed)

\* ------------------------------------------- predictions around a call
\* predict_raw (lines 627-631): the compiled unit has no updates (lines
\* 574-577); it is called on a network that is not inside a train call.
predict_raw ==
    /\ pc \in {"idle", "returned", "raised"}
    /\ calls["predict_raw"] < MaxPredictions
    /\ calls' = Called("predict_raw")
    /\ UNCHANGED <<buildVars, optVars, netVars, runVars, genVars,
                   runs, hook_log, caught, stopped, start_len, completed,
                   warnings>>

InitFrame ==
    /\ BuiltInit /\ NetInit /\ RunInit /\ GenInit /\ HistInit
    /\ python3 \in BOOLEAN
    /\ show_epoch_property = [kind |-> "int", n |-> 1]
    /\ shuffle_data = FALSE
    /\ epoch_end_signal = FALSE
    /\ train_end_signal = FALSE
    /\ epochs_step_minimizator = DecayPeriod

TrainOnce ==
    /\ runs = 0
    /\ \E ep \in 1..MaxEpochs, tg_test \in BOOLEAN :
          train(ep, None, TRUE, tg_test, TRUE)

NextFrame ==
    \/ predict_raw
    \/ TrainOnce
    \/ IterNext
    \/ HookReturns
    \/ TrainEpoch
    \/ PredictionError
    \/ AppendError
    \/ RenderRow
    \/ PostLoop
    \/ Close

SpecFrame == InitFrame /\ [][NextFrame]_vars

\* ======================================================= properties
InTry == {"train_epoch", "prediction_error", "epoch_end_signal"}
OutsideTry == {"epoch_start_update", "shuffle"}
OneTo(n) == [i \in 1..n |-> i]
Finishing == {"post", "end", "close", "returned"}

\* C1 (as stated): in a fixed-count run started with an empty error history,
\* a stop-training signal raised by train_epoch during epoch k leaves errors_in
\* with k entries when run returns, and no epoch after k is started.
C1_LengthIsK ==
    (/\ pc = "returned" /\ epsilon = None /\ start_len[1] = 0
     /\ stopped.unit = "train_epoch")
    => /\ Len(errors_in) = stopped.epoch
       /\ hook_log = OneTo(stopped.epoch)

\* C1 (amended): in a fixed-count run started with an empty error history, a
\* stop-training signal raised by train_epoch during epoch k leaves errors_in
\* with k - 1 entries when run returns (the stopped epoch appends nothing),
\* and no epoch after k is started.
C1_LengthIsKMinusOne ==
    (/\ pc = "returned" /\ epsilon = None /\ start_len[1] = 0
     /\ stopped.unit = "train_epoch")
    => /\ Len(errors_in) = stopped.epoch - 1
       /\ hook_log = OneTo(stopped.epoch)
       /\ calls["train_epoch"] = stopped.epoch
       /\ epoch = stopped.epoch

C1_Witness ==
    /\ pc = "returned" /\ epsilon = None /\ start_len[1] = 0
    /\ stopped.unit = "train_epoch"
    /\ stopped.epoch = 2 /\ epochs = 3
    /\ Len(errors_in) = 1

\* C2: a run that returns (loop exhausted, converged, or stop signal caught)
\* has invoked the configured train_end_signal exactly once; the invocation
\* comes after the loop has ended and the last executed epoch has its row,
\* and before the reporter is closed.
C2_TrainEndSignalOnce ==
    /\ [](pc = "returned" =>
            calls["train_end_signal"] = (IF train_end_signal THEN 1 ELSE 0))
    /\ [](gen_state = "closed" => pc = "returned")
    /\ [][calls'["train_end_signal"] > calls["train_end_signal"] =>
            /\ pc = "end"
            /\ calls["train_end_signal"] = 0
            /\ loop_exit \in {"exhausted", "converged", "break"}
            /\ Len(hook_log) = epoch
            /\ rows # <<>> /\ rows[Len(rows)] = epoch
            /\ gen_state = "suspended" /\ gen_state' = "suspended"]_vars

C2_Witness ==
    /\ pc = "returned" /\ train_end_signal
    /\ loop_exit = "break" /\ stopped.unit = "epoch_end_signal"
    /\ calls["train_end_signal"] = 1
    /\ gen_state = "closed"

\* C3 (as stated): after every completed epoch n of a run the shared step
\* equals first_step / (1 + n / epochs_step_minimizator), n / p being the
\* exact quotient.
C3_StepAfterEpoch ==
    (pc = "iter" /\ completed >= 1)
    => variables_step[1] * first_step[2] * (epochs_step_minimizator + completed)
       = variables_step[2] * first_step[1] * epochs_step_minimizator

\* C4: a train call with epsilon given and epochs <= 2 raises ValueError and
\* does nothing else: no unit is called, no reporter is created, and the
\* error histories, the epoch counters, the step and the parameters keep
\* their values.
C4_RefusedBeforeAnyEpoch ==
    [][(epsilon' # None /\ epochs' <= 2) =>
          /\ pc' = "raised" /\ raised' = "ValueError"
          /\ calls' = NoCalls /\ hook_log' = <<>>
          /\ gen_state' = "none" /\ rows' = <<>>
          /\ UNCHANGED netVars]_vars

C4_Witness ==
    /\ pc = "raised" /\ raised = "ValueError"
    /\ epsilon # None /\ epochs = 2
    /\ calls = NoCalls

\* C5: every step of a run leaves the old entries of errors_in and errors_out
\* in place and appends at most one entry; when an epoch has completed,
\* errors_in has grown by one entry per completed epoch, and errors_out by
\* one per completed epoch if input_test and target_test were both given and
\* by none otherwise.
C5_AppendOnly ==
    /\ [][/\ IsPrefix(errors_in, errors_in')
          /\ Len(errors_in') <= Len(errors_in) + 1
          /\ IsPrefix(errors_out, errors_out')
          /\ Len(errors_out') <= Len(errors_out) + 1]_vars
    /\ [](pc = "iter" =>
            /\ Len(errors_in) = start_len[1] + completed
            /\ Len(errors_out) = start_len[2]
                  + (IF input_test /\ target_test THEN completed ELSE 0))

C5_Witness ==
    /\ pc = "iter" /\ completed = 2
    /\ input_test /\ target_test
    /\ Len(errors_in) = 2 /\ Len(errors_out) = 2

\* C6: the epoch-start hook is invoked with 1, 2, 3, ... in that order, one
\* more per completed epoch, and whenever train_epoch is about to be called
\* the network's epoch and the shared epoch scalar both equal the number of
\* the epoch being executed.
C6_EpochCounter ==
    /\ hook_log = OneTo(Len(hook_log))
    /\ completed <= Len(hook_log) /\ Len(hook_log) <= completed + 1
    /\ pc \in {"shuffle", "train"} =>
          /\ epoch = Len(hook_log)
          /\ net_epoch = epoch
          /\ variables_epoch = epoch

C6_Witness ==
    /\ pc = "train" /\ epoch = 3 /\ completed = 2
    /\ hook_log = <<1, 2, 3>> /\ variables_epoch = 3

\* C7 (as stated): an integer show_epoch is used unchanged, and "<N> times"
\* resolves to ceil(total_epochs / N), clamped to 1 when total_epochs <= N.
C7_CeilInterval ==
    pc = "parsed" =>
        show_epoch =
            IF show_epoch_property.kind = "int" THEN show_epoch_property.n
            ELSE IF epochs <= show_epoch_property.n THEN 1
            ELSE Ceil(epochs, show_epoch_property.n)

\* C7 (amended): an integer show_epoch is used unchanged, and "<N> times"
\* resolves to 1 when total_epochs <= N and otherwise to total_epochs / N
\* rounded to the nearest integer, a tie going up under Python 2 and to the
\* even neighbour under Python 3.
C7_RoundedInterval ==
    pc = "parsed" =>
        LET N == show_epoch_property.n
            twice == 2 * (epochs - show_epoch * N)
        IN  IF show_epoch_property.kind = "int" THEN show_epoch = N
            ELSE IF epochs <= N THEN show_epoch = 1
            ELSE /\ Abs(twice) <= N
                 /\ Abs(twice) = N =>
                       IF python3 THEN show_epoch % 2 = 0 ELSE twice < 0

C7_Witness ==
    /\ pc = "parsed"
    /\ show_epoch_property = [kind |-> "times", n |-> 4]
    /\ epochs = 10 /\ python3
    /\ show_epoch = 2

\* C8 (as stated): ten consecutive gaps between rendered rows that have a
\* mean under one second raise the interval and clear the buffer; so a streak
\* of gaps each under a second, counted since the last increase, never grows
\* past ten.
C8_FastRowsRaiseInterval ==
    /\ streak <= delay_history_length
    /\ Len(terminal_output_delays) <= delay_history_length

\* C9 (as stated): a stop-training signal raised by any step of the epoch
\* body (epoch-start hook, shuffle, train_epoch, prediction_error, epoch-end
\* signal) is caught once, does not reach the caller, and ends the loop with
\* no further epoch executed.
C9_CaughtAnywhere ==
    stopped.unit \in InTry \cup OutsideTry =>
        /\ caught = 1
        /\ raised # "StopNetworkTraining"
        /\ loop_exit = "break"
        /\ Len(hook_log) = stopped.epoch

\* C9 (amended): a stop-training signal raised inside the try block, by
\* train_epoch, prediction_error or the epoch-end signal, is caught once,
\* does not reach the caller, and ends the loop with no further epoch
\* executed; one raised by the epoch-start hook or by shuffle, which run
\* before the try block, is not caught and reaches the caller.
C9_CaughtInsideTry ==
    /\ stopped.unit \in InTry =>
          /\ caught = 1
          /\ ~(raised = "StopNetworkTraining" /\ raised_by \in InTry)
          /\ loop_exit = "break"
          /\ pc \in Finishing \cup {"raised"}
          /\ Len(hook_log) = stopped.epoch /\ epoch = stopped.epoch
    /\ stopped.unit \in OutsideTry =>
          /\ caught = 0
          /\ pc = "raised" /\ raised = "StopNetworkTraining"
          /\ raised_by = stopped.unit

C9_Witness ==
    /\ stopped = [unit |-> "prediction_error", epoch |-> 2]
    /\ pc = "returned" /\ raised = "none" /\ caught = 1
    /\ epochs = 3

ValidForm(c) ==
    \/ is_list_of_integers(c)
    \/ c.kind \in {"list", "tuple"} /\ AllOf(c.items, BaseLayers)
    \/ c.kind = "chain"

\* C10 (as stated): building fails with NetworkConnectionError, the
\* invalid-connection error, and with no other error type, for every spec
\* that is not a sequence of positive integers, a sequence of layers or a
\* chained connection, and for every spec whose last layer is not an output
\* layer.
C10_OnlyConnectionError ==
    /\ build_pc = "failed" => build_raised = "NetworkConnectionError"
    /\ (build_pc # "new" /\ ~ValidForm(connection_arg)) => build_pc = "failed"

LayerList(c) == c.kind \in {"list", "tuple"} /\ AllOf(c.items, BaseLayers)

\* C11: a network built from a sequence of n layer objects ending in an
\* output layer has exactly those n layers in the stated order: input_layer
\* is the first, output_layer the last, and train_layers are all but the
\* last, in order.
C11_LayersInStatedOrder ==
    (/\ build_pc # "new" /\ LayerList(connection_arg)
     /\ is_output(connection_arg.items[Len(connection_arg.items)]))
    => LET given == connection_arg.items
           n == Len(given)
       IN  /\ build_pc = "built"
           /\ layers = given
           /\ input_layer = given[1]
           /\ output_layer = given[n]
           /\ train_layers = SubSeq(given, 1, n - 1)
           /\ hidden_layers = SubSeq(given, 2, n - 1)

C11_Witness ==
    /\ build_pc = "built"
    /\ connection_arg = [kind |-> "list", items |-> <<"layer", "relu", "output">>]
    /\ layers = <<"layer", "relu", "output">>
    /\ train_layers = <<"layer", "relu">>

\* C19 (as stated): building from a list of layer objects leaves the caller's
\* list with the same layers in the same order and of the same length.
C19_CallerListKept ==
    (build_pc # "new" /\ LayerList(connection_arg)) => caller_list = connection_arg

\* C12: calling train again does not reset the network: the call itself
\* leaves errors_in, errors_out, the parameters and the step as the call
\* before left them, no step rewrites an entry of errors_in, and when a call
\* of m completed epochs returns after earlier calls that completed n epochs
\* in all, errors_in holds the n earlier entries followed by the m new ones.
C12_RunsAccumulate ==
    /\ [][/\ IsPrefix(errors_in, errors_in')
          /\ runs' # runs =>
                /\ UNCHANGED <<errors_in, errors_out, parameters, variables_step>>
                /\ start_len' = <<Len(errors_in), Len(errors_out)>>]_vars
    /\ [](pc = "returned" =>
            /\ Len(errors_in) = start_len[1] + completed
            /\ parameters = Len(errors_in)
            /\ \A i \in 1..Len(errors_in) :
                  /\ i <= start_len[1] => errors_in[i] < runs
                  /\ i > start_len[1] => errors_in[i] = runs)

C12_Witness ==
    /\ runs = 2 /\ pc = "returned"
    /\ start_len[1] = 2 /\ completed = 1
    /\ errors_in = <<1, 1, 2>>
    /\ parameters = 3

\* C13: with shuffle_data set, every shuffle applies one permutation to
\* input_train and target_train, so the training input stays a permutation of
\* the rows given and row i of the input and row i of the target are the same
\* row of the data, for every i and after any number of epochs; a target of
\* None stays None while the input is permuted.
C13_ShuffleLockstep ==
    /\ [](input_train # None =>
            /\ \E perm \in Permutations(1..NRows) :
                  input_train = shuffle(perm, Identity)
            /\ target_train # None =>
                  \A i \in 1..NRows : target_train[i] = input_train[i])
    /\ [][calls'["shuffle"] > calls["shuffle"] =>
            /\ \E perm \in Permutations(1..NRows) :
                  /\ input_train' = shuffle(perm, input_train)
                  /\ target_train' = IF target_train = None THEN None
                                     ELSE shuffle(perm, target_train)
            /\ (target_train = None) = (target_train' = None)]_vars

C13_Witness ==
    /\ calls["shuffle"] = 2 /\ pc = "train"
    /\ input_train = <<2, 1>>
    /\ target_train = <<2, 1>>

Did(u) == calls'[u] > calls[u]
Per(flag, n) == IF flag THEN n ELSE 0

\* C14: within an epoch the steps come in the order epoch-start hook,
\* shuffle (if shuffle_data), train_epoch, prediction_error with the append
\* to errors_out (if held-out data), append to errors_in with the elapsed
\* time, progress row (if on the cadence), epoch_end_signal (if configured),
\* each at most once; when an epoch has completed every configured step has
\* run once per completed epoch, and epoch_end_signal is never called before
\* the epoch's training error is in errors_in.
C14_BodyOrder ==
    /\ [](pc = "iter" =>
            /\ calls["epoch_start_update"] = completed
            /\ calls["shuffle"] = Per(shuffle_data, completed)
            /\ calls["train_epoch"] = completed
            /\ calls["prediction_error"] = Per(compute_error_out, completed)
            /\ calls["epoch_end_signal"] = Per(epoch_end_signal, completed)
            /\ Len(errors_in) = start_len[1] + completed
            /\ Len(rows) <= completed)
    /\ [][LET before == epoch - 1 IN
          /\ Did("epoch_start_update") =>
                /\ calls["epoch_start_update"] = before
                /\ calls["shuffle"] = Per(shuffle_data, before)
                /\ calls["train_epoch"] = before
                /\ calls["epoch_end_signal"] = Per(epoch_end_signal, before)
          /\ Did("shuffle") =>
                /\ shuffle_data
                /\ calls["epoch_start_update"] = epoch
                /\ calls["shuffle"] = before
                /\ calls["train_epoch"] = before
          /\ Did("train_epoch") =>
                /\ calls["epoch_start_update"] = epoch
                /\ calls["shuffle"] = Per(shuffle_data, epoch)
                /\ calls["train_epoch"] = before
                /\ calls["prediction_error"] = Per(compute_error_out, before)
                /\ Len(errors_in) = start_len[1] + before
          /\ Did("prediction_error") =>
                /\ compute_error_out
                /\ calls["train_epoch"] = epoch
                /\ calls["prediction_error"] = before
                /\ Len(errors_out) = start_len[2] + before
                /\ Len(errors_in) = start_len[1] + before
          /\ errors_out' # errors_out => Did("prediction_error")
          /\ errors_in' # errors_in =>
                /\ calls["train_epoch"] = epoch
                /\ calls["prediction_error"] = Per(compute_error_out, epoch)
                /\ Len(errors_out) = start_len[2] + Per(compute_error_out, epoch)
                /\ Len(errors_in) = start_len[1] + before
                /\ train_epoch_time' # None
                /\ last_epoch_shown < epoch
                /\ calls["epoch_end_signal"] = Per(epoch_end_signal, before)
          /\ (rows' # rows /\ pc = "render") =>
                /\ on_cadence
                /\ Len(errors_in) = start_len[1] + epoch
                /\ train_epoch_time # None
                /\ last_epoch_shown < epoch
                /\ calls["epoch_end_signal"] = Per(epoch_end_signal, before)
          /\ Did("epoch_end_signal") =>
                /\ epoch_end_signal
                /\ calls["epoch_end_signal"] = before
                /\ Len(errors_in) = start_len[1] + epoch
                /\ on_cadence => last_epoch_shown = epoch]_vars

C14_Witness ==
    /\ pc = "iter" /\ completed = 2
    /\ shuffle_data /\ compute_error_out /\ epoch_end_signal
    /\ calls["shuffle"] = 2 /\ calls["prediction_error"] = 2
    /\ calls["epoch_end_signal"] = 2
    /\ Len(rows) = 2

\* C15: a fixed-count call with epochs = N >= 1 in which no unit raises
\* executes the epoch body for the epoch numbers 1..N in increasing order,
\* never more than N of them, and then returns with the loop exhausted and
\* errors_in grown by exactly N.
C15_ExactlyNEpochs ==
    /\ [](/\ hook_log = OneTo(Len(hook_log))
          /\ Len(hook_log) <= epochs
          /\ completed <= Len(hook_log))
    /\ [](pc = "returned" =>
            /\ loop_exit = "exhausted"
            /\ hook_log = OneTo(epochs)
            /\ calls["train_epoch"] = epochs
            /\ completed = epochs
            /\ Len(errors_in) = start_len[1] + epochs)
    /\ (runs = 1 ~> pc = "returned")

C15_Witness ==
    /\ pc = "returned" /\ loop_exit = "exhausted"
    /\ epochs = 3 /\ hook_log = <<1, 2, 3>>
    /\ Len(errors_in) = 3 /\ calls["train_epoch"] = 3

\* C16: the rows of a call are for strictly increasing epochs, so no epoch has
\* two rows; the forced row after the loop is drawn if and only if the last
\* executed epoch has no row yet, also after a caught stop signal; and when
\* the call returns the last row is for the last executed epoch.
C16_LastRowIsLastEpoch ==
    /\ [](\A i \in 1..Len(rows) - 1 : rows[i] < rows[i + 1])
    /\ []((rows # <<>> /\ pc \notin {"end", "close", "returned", "raised"})
              => last_epoch_shown = rows[Len(rows)])
    /\ [](pc = "returned" => rows # <<>> /\ rows[Len(rows)] = epoch
                             /\ epoch = Len(hook_log))
    /\ [][(pc = "post" /\ pc' # "raised") =>
            /\ (rows' # rows) = (rows = <<>> \/ rows[Len(rows)] # epoch)
            /\ rows' # rows => rows' = Append(rows, epoch)]_vars

C16_Witness ==
    /\ pc = "returned" /\ loop_exit = "break"
    /\ stopped = [unit |-> "train_epoch", epoch |-> 3]
    /\ last_epoch_shown = 2
    /\ rows = <<1, 2, 3>>

\* C17: inside the loop the end of epoch e draws a row if and only if e = 1
\* or e is a multiple of the interval K (show_epoch) in force at that moment,
\* and K changes only in the step that draws a row, where it takes the value
\* the reporter hands back.
C17_RowsOnCadence ==
    [][/\ pc = "append" =>
             (pc' = "render") = (epoch = 1 \/ epoch % show_epoch = 0)
       /\ (rows' # rows /\ pc # "post") =>
             /\ pc = "render"
             /\ epoch = 1 \/ epoch % show_epoch = 0
             /\ rows' = Append(rows, epoch)
             /\ Len(errors_in) = start_len[1] + epoch
       /\ pc = "render" => rows' # rows
       /\ (show_epoch' # show_epoch /\ runs' = runs) =>
             /\ pc = "render" /\ rows' # rows
             /\ show_epoch' = gen_show_epoch'
             /\ show_epoch' > show_epoch]_vars

C17_Witness ==
    /\ pc = "iter" /\ epoch = 13
    /\ show_epoch_property.n = 1 /\ show_epoch = 2
    /\ Len(errors_in) = 13
    /\ Len(rows) = 12 /\ rows[12] = 12

Entered == pc = "iter" /\ hook_log = <<>>

\* C18 (as stated): a call with epsilon given starts with the reporting
\* interval 100 whatever form the show_epoch property has, and logs the
\* warning about it once.
C18_AlwaysHundred ==
    (Entered /\ epsilon # None) =>
        show_epoch = ConvergeShowEpoch /\ warnings = 1

\* C18 (amended): a call with epsilon given starts with the reporting
\* interval 100 and logs the warning once when the show_epoch property is a
\* string ("<N> times"); an integer show_epoch is kept as the interval and no
\* warning is logged. A fixed-count call logs none, and no later step of the
\* call logs one.
C18_HundredForStrings ==
    /\ []((Entered /\ epsilon # None) =>
            IF show_epoch_property.kind = "times"
            THEN show_epoch = ConvergeShowEpoch /\ warnings = 1
            ELSE show_epoch = show_epoch_property.n /\ warnings = 0)
    /\ [](epsilon = None => warnings = 0)
    /\ [][warnings' # warnings => runs' # runs]_vars

C18_Witness ==
    /\ Entered /\ epsilon # None /\ epochs = 3
    /\ show_epoch_property = [kind |-> "int", n |-> 2]
    /\ show_epoch = 2 /\ warnings = 0

Failed(unit) == pc = "raised" /\ raised = "Exception" /\ raised_by = unit
HistoryOf(n) ==
    /\ Len(errors_in) = start_len[1] + n
    /\ Len(errors_out) = start_len[2] + Per(compute_error_out, n)

\* C20 (as stated): when an exception other than the stop signal raised by
\* train_epoch, prediction_error or the epoch-end signal leaves the call,
\* errors_in, errors_out and the parameters are as the last completed epoch
\* left them: the failing epoch has added nothing to them.
C20_FailingEpochAddsNothing ==
    (Failed("train_epoch") \/ Failed("prediction_error")
        \/ Failed("epoch_end_signal"))
    => HistoryOf(completed) /\ parameters = completed

\* C20 (amended): an exception other than the stop signal raised inside the
\* loop leaves the call uncaught and nothing is rolled back. Raised by
\* train_epoch, it leaves the histories and the parameters as the last
\* completed epoch left them; raised by prediction_error, it leaves the
\* histories so, and the parameters with the failing epoch's update applied;
\* raised by the epoch-end signal, it leaves the failing epoch's entries in
\* the histories as well. No step follows the raise.
C20_NoRollback ==
    /\ [](Failed("train_epoch") =>
            /\ HistoryOf(completed) /\ parameters = completed
            /\ epoch = completed + 1 /\ caught = 0 /\ loop_exit = "none")
    /\ [](Failed("prediction_error") =>
            /\ HistoryOf(completed) /\ parameters = completed + 1
            /\ epoch = completed + 1 /\ caught = 0 /\ loop_exit = "none")
    /\ [](Failed("epoch_end_signal") =>
            /\ HistoryOf(completed + 1) /\ parameters = completed + 1
            /\ epoch = completed + 1 /\ caught = 0 /\ loop_exit = "none")
    /\ [][pc # "raised"]_vars

C20_Witness ==
    /\ Failed("prediction_error")
    /\ epoch = 2 /\ completed = 1
    /\ Len(errors_in) = 1 /\ Len(errors_out) = 1
    /\ parameters = 2

\* C23 (as stated): a fixed-count call with epochs = 0 executes no epoch
\* body, leaves errors_in and errors_out as they were, and returns normally:
\* nothing is raised, train_end_signal is called once and the reporter is
\* closed.
C23_ZeroEpochsReturns ==
    (runs = 1 /\ epsilon = None /\ epochs = 0) =>
        /\ hook_log = <<>>
        /\ Len(errors_in) = start_len[1] /\ Len(errors_out) = start_len[2]
        /\ pc # "raised" /\ raised = "none"
        /\ pc = "returned" =>
              /\ calls["train_end_signal"] = Per(train_end_signal, 1)
              /\ gen_state = "closed"

\* C21: prediction_error and predict_raw leave the parameters, the shared
\* step and the shared epoch scalar as they are; the shared epoch scalar is
\* written only by the epoch-start hook, and the parameters and the shared
\* step only by a train_epoch call, which applies one round of updates with
\* the new step computed from the values before the call.
C21_OnlyTrainEpochUpdates ==
    [][/\ (Did("prediction_error") \/ Did("predict_raw")) =>
             UNCHANGED <<parameters, variables_step, variables_epoch>>
       /\ variables_epoch' # variables_epoch =>
             Did("epoch_start_update") /\ variables_epoch' = epoch
       /\ (parameters' # parameters \/ variables_step' # variables_step) =>
             /\ Did("train_epoch")
             /\ parameters' = parameters + 1
             /\ variables_step' = new_step
             /\ UNCHANGED variables_epoch]_vars

C21_Witness ==
    /\ pc = "returned"
    /\ calls["predict_raw"] = 1 /\ calls["prediction_error"] = 2
    /\ parameters = 2 /\ variables_epoch = 2
    /\ Len(errors_out) = 2

Targets == [k \in 1..Len(updates) |-> updates[k][1]]
ExpectedBase ==
    [k \in 1..(Len(train_layers) * ParamsPerLayer) |->
        <<((k - 1) \div ParamsPerLayer) + 1, ((k - 1) % ParamsPerLayer) + 1>>]

\* C22 (as stated): once the pipeline is built the constructor compiles
\* train_epoch with an update list of at most one entry per target: one per
\* parameter of every trainable layer, in pipeline order and none for the
\* output layer, followed with the step-decay rule by exactly one pair for
\* the shared step.
C22_OneUpdatePerTarget ==
    (build_pc # "new" /\ connection # <<>>) =>
        /\ build_raised = "none"
        /\ build_pc = "compiled" =>
              /\ \A j, k \in 1..Len(updates) : Targets[j] = Targets[k] => j = k
              /\ Targets = IF decay
                           THEN Append(IF overrides THEN ExpectedBase ELSE <<>>,
                                       shared_step)
                           ELSE (IF overrides THEN ExpectedBase ELSE <<>>)

====
